---- MODULE Spec2Model ----
(***************************************************************************)
(* llm-tracker: a higher-order function that wraps an asynchronous call,   *)
(* extracts token usage and the model name from its result, assembles a    *)
(* tracking record and posts it to a backend without awaiting the post.    *)
(*                                                                         *)
(* One wrapper is under test in a behaviour.  It was made either by        *)
(* withLLMTracking(target, options) ("direct") or by                       *)
(* createLLMTracker(baseOptions)(target, specificOptions) ("factory").     *)
(* Each element of Calls is one invocation of that wrapper.                *)
(***************************************************************************)
EXTENDS Integers, Sequences, FiniteSets, TLC

\* ------------------------------------------------------------------ bounds
\* Number of invocation slots of the wrapper.
NumCalls == 2
\* Last reading of the millisecond clock (Date.now()).
MaxTime == 1
\* Largest token count a response or a custom extractor reports.
MaxTok == 1
\* Largest value of an ordinary metadata entry.
MaxVal == 2

Calls == 1..NumCalls
Times == 0..MaxTime
TokNums == 0..MaxTok
Models == {"m1", "m2"}
Errors == {[err |-> "e1"], [err |-> "e2"]}

\* ------------------------------------------------------------- JS values
\* undefined / an absent optional field, for string-valued places.
Absent == "<undefined>"
\* Token fields are numbers, null or undefined.
Undef == [t |-> "undefined", n |-> 0]
Null == [t |-> "null", n |-> 0]
Num(k) == [t |-> "number", n |-> k]
NaN == [t |-> "NaN", n |-> 0]

IsNum(v) == v.t = "number"

\* ToNumber of the value kinds above.
ToNumber(v) ==
    CASE v.t = "number" -> v
      [] v.t = "null" -> Num(0)
      [] OTHER -> NaN

\* The + operator on two non-string operands.
JsAdd(a, b) ==
    LET x == ToNumber(a)
        y == ToNumber(b)
    IN  IF IsNum(x) /\ IsNum(y) THEN Num(x.n + y.n) ELSE NaN

\* Object spread {...a, ...b}: the keys of both, b winning on a shared key.
Spread(a, b) ==
    [k \in (DOMAIN a) \cup (DOMAIN b) |-> IF k \in DOMAIN b THEN b[k] ELSE a[k]]

\* The object with no own keys; spreading undefined adds no keys either.
EmptyObject == << >>

\* -------------------------------------------------------------- responses
\* A response of the target: nil is a null/undefined response, usage says
\* whether it has a usage object, the four token fields are those the
\* built-in extractors read, model is the top-level model field.
Response(nil, usage, pt, ct, cpt, cct, model) ==
    [nil |-> nil, usage |-> usage, prompt_tokens |-> pt, completion_tokens |-> ct,
     promptTokens |-> cpt, completionTokens |-> cct, model |-> model]

OpenAIResponse(p, c, m) == Response(FALSE, TRUE, p, c, Undef, Undef, m)
AISDKResponse(p, c) == Response(FALSE, TRUE, Undef, Undef, p, c, Absent)
NoUsageResponse(m) == Response(FALSE, FALSE, Undef, Undef, Undef, Undef, m)
NilResponse == Response(TRUE, FALSE, Undef, Undef, Undef, Undef, Absent)

Responses ==
    {OpenAIResponse(Num(p), Num(c), "m1") : p \in TokNums, c \in TokNums}
    \cup {OpenAIResponse(Num(1), Num(1), Absent), OpenAIResponse(Num(1), Undef, "m1"),
          OpenAIResponse(Null, Num(1), "m1"), OpenAIResponse(Num(0 - 1), Num(1), "m1")}
    \cup {AISDKResponse(Num(1), Num(1)), NoUsageResponse("m2"), NilResponse}

\* A primitive response (a number, a string): reading .usage or .model of
\* it gives undefined, as for an object with neither.
PrimitiveResponse == NoUsageResponse(Absent)

\* Values of a usage field: missing, null, a number.
UsageValues == {Undef, Null, Num(1)}

\* Responses for the built-in strategies: each provider's shape with every
\* combination of its two fields missing, null or a number; one with the
\* fields of both; no usage; a primitive; null or undefined.
ExtractResponses ==
    {OpenAIResponse(p, c, "m1") : p \in UsageValues, c \in UsageValues}
    \cup {Response(FALSE, TRUE, Undef, Undef, p, c, "m1") :
            p \in UsageValues, c \in UsageValues}
    \cup {AISDKResponse(Num(1), Num(0)),
          Response(FALSE, TRUE, Num(1), Num(0), Num(0), Num(1), "m2"),
          NoUsageResponse("m2"), PrimitiveResponse, NilResponse}

\* response?.usage?.field
UsageField(response, field) ==
    IF response.nil \/ ~response.usage THEN Undef ELSE response[field]

\* response?.model
ModelField(response) == IF response.nil THEN Absent ELSE response.model

\* ------------------------------------------------------------- extractors
\* What a call of an extractor does: it returns (thrown = FALSE) or throws,
\* after emitting the console.warn diagnostics in diag.
TokenReturn(i, o, diag) ==
    [thrown |-> FALSE, inputTokens |-> i, outputTokens |-> o, diag |-> diag]
TokenThrow == [thrown |-> TRUE, inputTokens |-> Undef, outputTokens |-> Undef, diag |-> << >>]
ModelReturn(m, diag) == [thrown |-> FALSE, modelName |-> m, diag |-> diag]
ModelThrow == [thrown |-> TRUE, modelName |-> Absent, diag |-> << >>]

\* The test written with || : one defined field is enough to take both.
UsageTokenExtractorEitherField(response, inField, outField, warning) ==
    IF UsageField(response, inField) # Undef \/ UsageField(response, outField) # Undef
    THEN TokenReturn(UsageField(response, inField), UsageField(response, outField), << >>)
    ELSE TokenReturn(Num(0), Num(0), <<warning>>)

\* Reads usage.<inField>/usage.<outField> when both are defined, else warns
\* and returns zero counts: the body shared by the three built-in token
\* extractors.
UsageTokenExtractor(response, inField, outField, warning) ==
    IF UsageField(response, inField) # Undef /\ UsageField(response, outField) # Undef
    THEN TokenReturn(UsageField(response, inField), UsageField(response, outField), << >>)
    ELSE TokenReturn(Num(0), Num(0), <<warning>>)

\* The two counts read from each other's field.
defaultTokenExtractorSwapped(response) ==
    UsageTokenExtractor(response, "completion_tokens", "prompt_tokens", "warn:default-tokens")

defaultTokenExtractor(response) ==
    UsageTokenExtractor(response, "prompt_tokens", "completion_tokens", "warn:default-tokens")

defaultModelExtractor(response) == ModelReturn(ModelField(response), << >>)

openAITokenExtractor(response) ==
    UsageTokenExtractor(response, "prompt_tokens", "completion_tokens", "warn:openai-tokens")

openAIModelExtractor(response) == ModelReturn(ModelField(response), << >>)

\* The AI SDK strategy reading the OpenAI field names.
aiSDKTokenExtractorSnakeCase(response) ==
    UsageTokenExtractor(response, "prompt_tokens", "completion_tokens", "warn:aisdk-tokens")

aiSDKTokenExtractor(response) ==
    UsageTokenExtractor(response, "promptTokens", "completionTokens", "warn:aisdk-tokens")

\* An AI SDK model strategy that reads response.model after warning.
aiSDKModelExtractorReadsModel(response) ==
    ModelReturn(ModelField(response), <<"warn:aisdk-model">>)

\* console.warn telling the caller to provide metadata.modelName, then
\* return undefined, whatever the response.
aiSDKModelExtractor(response) == ModelReturn(Absent, <<"warn:aisdk-model">>)

\* A caller-supplied extractor is any function of its declared type: it
\* returns some pair of numbers (some model name or undefined), or throws.
CustomTokenOutcomes ==
    {TokenReturn(Num(i), Num(o), << >>) : i \in TokNums, o \in TokNums} \cup {TokenThrow}
CustomModelOutcomes ==
    {ModelReturn(m, << >>) : m \in Models \cup {Absent}} \cup {ModelThrow}

\* ---------------------------------------------------------------- options
\* An options object is a function from the keys it has to their values.
\* Keys: functionName, trackerApiUrl, apiKey, metadata, tokenExtractor,
\* modelExtractor.  metadata is itself such an object.
Field(o, f) == IF f \in DOMAIN o THEN o[f] ELSE Absent

\* ...options.metadata: the keys of the metadata object, none if undefined.
MetadataOf(o) == IF "metadata" \in DOMAIN o THEN o["metadata"] ELSE EmptyObject

\* options.tokenExtractor ?? defaultTokenExtractor, applied to the result.
TokenOutcomes(options, response) ==
    LET id == Field(options, "tokenExtractor")
    IN  CASE id = Absent -> {defaultTokenExtractor(response)}
          [] id = "openAI" -> {openAITokenExtractor(response)}
          [] id = "aiSDK" -> {aiSDKTokenExtractor(response)}
          [] id = "custom" -> CustomTokenOutcomes

\* options.modelExtractor ?? defaultModelExtractor, applied to the result.
ModelOutcomes(options, response) ==
    LET id == Field(options, "modelExtractor")
    IN  CASE id = Absent -> {defaultModelExtractor(response)}
          [] id = "openAI" -> {openAIModelExtractor(response)}
          [] id = "aiSDK" -> {aiSDKModelExtractor(response)}
          [] id = "custom" -> CustomModelOutcomes

\* -------------------------------------------------- withLLMTracking, pure
\* A sum that forgets the output tokens.
TotalTokensInputOnly(inputTokens, outputTokens) == inputTokens

\* const totalTokens = inputTokens + outputTokens
TotalTokens(inputTokens, outputTokens) == JsAdd(inputTokens, outputTokens)

\* const modelName = modelExtractor(result): the record's modelName is the
\* extractor's return value; options.metadata is not consulted.
RecordModelName(options, extracted) == extracted

\* The spread written after durationMs: a caller's durationMs would win.
RecordMetadataDurationFirst(options, durationMs) ==
    Spread([k \in {"durationMs"} |-> durationMs], MetadataOf(options))

\* The metadata with the modelName key filtered out before the merge.
RecordMetadataWithoutModelName(options, durationMs) ==
    LET md == MetadataOf(options)
    IN  Spread([k \in (DOMAIN md) \ {"modelName"} |-> md[k]],
               [k \in {"durationMs"} |-> durationMs])

\* metadata: { ...options.metadata, durationMs }
RecordMetadata(options, durationMs) ==
    Spread(MetadataOf(options), [k \in {"durationMs"} |-> durationMs])

\* new Date().toISOString() at clock reading t.
ToISOString(t) == <<"iso-8601", t>>

\* const trackingData: TrackingData = { ... }
TrackingData(options, tokens, extractedModel, durationMs, t) ==
    [functionName |-> Field(options, "functionName"),
     inputTokens |-> tokens.inputTokens,
     outputTokens |-> tokens.outputTokens,
     totalTokens |-> TotalTokens(tokens.inputTokens, tokens.outputTokens),
     modelName |-> RecordModelName(options, extractedModel),
     timestamp |-> ToISOString(t),
     metadata |-> RecordMetadata(options, durationMs)]

\* A wrapper that ends without `return result` resolves with undefined.
ReturnValueDropped(result) ==
    [nil |-> TRUE, usage |-> FALSE, prompt_tokens |-> Undef, completion_tokens |-> Undef,
     promptTokens |-> Undef, completionTokens |-> Undef, model |-> Absent]

\* return result
ReturnValue(result) == result

\* A catch block that throws a new error made from the caught one.
RethrownWrapped(error) == [err |-> "LLM Tracker: " \o error.err]

\* throw error, in the catch block of the wrapper
Rethrown(error) == error

\* `await sendTrackingData(...)`: the wrapper waits for the delivery.
DeliveryAwaitedTrue == TRUE

\* sendTrackingData(...).catch(...) is called without await: the wrapper
\* goes on to `return result` while the request is in flight.
DeliveryAwaited == FALSE

\* The errors an extractor raises.
TokenExtractorError == [err |-> "thrown by tokenExtractor"]
ModelExtractorError == [err |-> "thrown by modelExtractor"]

\* ------------------------------------------------------- sendTrackingData
\* The header set without the test of apiKey: "Bearer undefined" goes out
\* when there is no credential.
HeadersAlwaysAuthorization(apiKey) ==
    [k \in {"Content-Type", "Authorization"} |->
        IF k = "Content-Type" THEN "application/json" ELSE "Bearer " \o apiKey]

\* headers: Content-Type always, Authorization when apiKey is truthy.
Headers(apiKey) ==
    IF apiKey # Absent /\ apiKey # ""
    THEN [k \in {"Content-Type", "Authorization"} |->
            IF k = "Content-Type" THEN "application/json" ELSE "Bearer " \o apiKey]
    ELSE [k \in {"Content-Type"} |-> "application/json"]

\* JSON.stringify throws on a value that has no JSON form (a circular
\* object, a BigInt); the metadata key "self" holds such a value.
Serializable(data) == "self" \notin DOMAIN data.metadata

\* A number as JSON writes it: NaN becomes null.
JsonNumber(v) == IF v.t = "NaN" THEN Null ELSE v

\* JSON.stringify(data), as the receiver parses it: a property whose value
\* is undefined is left out and NaN is written as null.
JsonStringify(data) ==
    LET kept == IF data.modelName = Absent
                THEN (DOMAIN data) \ {"modelName"} ELSE DOMAIN data
    IN  [f \in kept |->
            IF f \in {"inputTokens", "outputTokens", "totalTokens"}
            THEN JsonNumber(data[f]) ELSE data[f]]

\* fetch(apiUrl, { method: "POST", headers, body: JSON.stringify(data) })
FetchRequest(apiUrl, data, apiKey) ==
    [url |-> apiUrl, method |-> "POST", headers |-> Headers(apiKey),
     body |-> JsonStringify(data)]

\* A catch block that logs and does not rethrow: the promise of
\* sendTrackingData fulfils.
SendCatchSwallows == "resolved"

\* catch (error) { console.error(...); throw error; }: the promise of
\* sendTrackingData rejects.
SendCatch == "rejected"

\* ------------------------------------------------------- createLLMTracker
\* The layers spread in the wrong order: specific over runtime.
MergedMetadataSpecificLast(base, specific, runtime) ==
    Spread(Spread(MetadataOf(base), runtime), MetadataOf(specific))

\* { ...baseOptions.metadata, ...specificOptions.metadata, ...(runtimeMetadata || {}) }
MergedMetadata(base, specific, runtime) ==
    Spread(Spread(MetadataOf(base), MetadataOf(specific)), runtime)

\* The two spreads in the other order: a base field wins over a specific one.
ResolvedOptionsBaseLast(base, specific, runtime) ==
    Spread(Spread(specific, base),
           [k \in {"metadata"} |-> MergedMetadata(base, specific, runtime)])

\* { ...baseOptions, ...specificOptions, metadata: mergedMetadata }
ResolvedOptions(base, specific, runtime) ==
    Spread(Spread(base, specific),
           [k \in {"metadata"} |-> MergedMetadata(base, specific, runtime)])

\* ------------------------------------------------------------------ state
VARIABLES
    mode,             \* "direct": withLLMTracking; "factory": createLLMTracker
    baseOptions,      \* factory: the baseOptions object; direct: no keys
    specificOptions,  \* factory: specificOptions; direct: the options object
    givenOptions,     \* both objects as they were when the wrapper was made
    active,           \* the invocation slots the caller uses
    inputs,           \* the setting: what the caller and the target can supply
    now,              \* the clock, Date.now()
    pc,               \* per invocation: idle, awaiting, settled, done
    targetArgs,       \* the argument list the target was called with
    callerArgs,       \* the first argument the caller gave the wrapper
    runtimeMetadata,  \* the second argument of a factory-made wrapper
    wrapperOptions,   \* the options object the invocation's closure holds
    startTime,        \* const startTime = Date.now()
    endTime,          \* const endTime = Date.now()
    target,           \* how the target's promise settled
    extraction,       \* none, ok, tokenThrew, modelThrew
    record,           \* the trackingData assembled, if any
    request,          \* the fetch request issued, if any
    sendState,        \* none, fetching, readingBody, resolved, rejected, handled
    outcome,          \* what the caller's promise settled to
    log               \* diagnostics and events of the invocation, in order

vars ==
    <<mode, baseOptions, specificOptions, givenOptions, active, inputs, now, pc,
      targetArgs, callerArgs, runtimeMetadata, wrapperOptions, startTime, endTime, target, extraction,
      record, request, sendState, outcome, log>>

configVars == <<mode, baseOptions, specificOptions, givenOptions, active, inputs>>

Pending == [k |-> "pending"]
Resolved(v) == [k |-> "resolved", v |-> v]
Rejected(e) == [k |-> "rejected", v |-> e]

NoRecord == [none |-> TRUE]
NoRequest == [none |-> TRUE]
NoArgs == << >>
NoTime == 0 - 1

\* ------------------------------------------------------ configurations
\* Values a caller gives a metadata key.  modelName names a model the
\* responses never carry; durationMs is a value no measured duration takes;
\* self is a circular reference.
MetaVals(k) ==
    CASE k = "modelName" -> {"override"}
      [] k = "durationMs" -> {-1}
      [] k = "self" -> {"circular"}
      [] OTHER -> 1..MaxVal

RECURSIVE MapsOver(_)
MapsOver(D) ==
    IF D = {} THEN {EmptyObject}
    ELSE LET k == CHOOSE x \in D : TRUE
         IN  {Spread(m, [x \in {k} |-> v]) : m \in MapsOver(D \ {k}), v \in MetaVals(k)}

\* Every metadata object over a subset of the keys.
MetaMaps(keys) == UNION {MapsOver(D) : D \in SUBSET keys}

Prop(name, present, v) == IF present THEN [k \in {name} |-> v] ELSE EmptyObject

\* An options object; Absent leaves the key out, hasMeta says whether the
\* metadata key is there.
MakeOptions(functionName, trackerApiUrl, apiKey, hasMeta, metadata, tokenExtractor, modelExtractor) ==
    Spread(Prop("functionName", functionName # Absent, functionName),
    Spread(Prop("trackerApiUrl", trackerApiUrl # Absent, trackerApiUrl),
    Spread(Prop("apiKey", apiKey # Absent, apiKey),
    Spread(Prop("metadata", hasMeta, metadata),
    Spread(Prop("tokenExtractor", tokenExtractor # Absent, tokenExtractor),
           Prop("modelExtractor", modelExtractor # Absent, modelExtractor))))))

\* The object o with key f present and set to undefined, which the type of
\* an optional property admits ({apiKey: undefined}).
WithUndefined(o, f) == Spread(o, [k \in {f} |-> Absent])

\* The extractor pairs a configuration names: none (the defaults), the
\* AI SDK pair, a custom pair, and a custom token extractor alone.
ExtractorPairs ==
    {<<Absent, Absent>>, <<"aiSDK", "aiSDK">>, <<"custom", "custom">>, <<"openAI", "custom">>}

\* Options given to withLLMTracking directly.
DirectOptions ==
    {MakeOptions("fn", "https://tracker/direct", "key", TRUE, md, x[1], x[2]) :
        md \in MetaMaps({"userId", "modelName", "durationMs"}),
        x \in ExtractorPairs}

\* Options given to createLLMTracker ...
FactoryBaseOptions ==
    {MakeOptions(Absent, "https://tracker/base", "baseKey", TRUE, md, "aiSDK", Absent) :
        md \in MetaMaps({"userId"})}

\* ... and to the createTrackingWrapper it returns.
FactorySpecificOptions ==
    {MakeOptions("fn", Absent, Absent, TRUE, md, x[1], x[2]) :
        md \in MetaMaps({"modelName", "durationMs"}),
        x \in {<<Absent, "openAI">>, <<"custom", "aiSDK">>}}

\* Runtime metadata of one call of a factory-made wrapper.
RuntimeChoices ==
    {EmptyObject} \cup MapsOver({"userId"}) \cup MapsOver({"modelName"})
    \cup MapsOver({"self"}) \cup MapsOver({"durationMs"})

\* What the environment supplies in the setting named by inputs: the
\* argument of a call, its runtime metadata (factory only), and what the
\* target settles to.
ArgsOf(setting) == IF setting = "send" THEN {"args1", "args2"} ELSE {"args1"}

RuntimeOf(setting) ==
    CASE setting = "merge" -> MetaMaps({"b", "c"})
      [] setting = "live" -> MapsOver({"modelName"}) \cup MapsOver({"self"})
      [] setting = "fields" -> {EmptyObject}
      [] setting = "send" -> {EmptyObject} \cup MapsOver({"self"})
      [] setting = "mutable" -> {EmptyObject, [k \in {"userId"} |-> 1]}
      [] setting = "overlap" -> {EmptyObject, [k \in {"userId"} |-> 1],
                                 [k \in {"userId", "requestId"} |-> 2]}
      [] OTHER -> RuntimeChoices

ResponsesOf(setting) ==
    CASE setting = "merge" -> {OpenAIResponse(Num(1), Num(1), "m1")}
      [] setting = "fields" -> {OpenAIResponse(Num(1), Num(0), "m1"),
                                AISDKResponse(Num(0), Num(1))}
      [] setting = "send" -> {OpenAIResponse(Num(1), Num(1), "m1")}
      [] setting = "extract" -> ExtractResponses
      [] setting = "mutable" -> {OpenAIResponse(Num(1), Num(0), "m1")}
      [] setting = "overlap" -> {OpenAIResponse(Num(1), Num(0), "m1"),
                                 OpenAIResponse(Num(0), Num(1), "m2")}
      [] OTHER -> Responses

ErrorsOf(setting) ==
    IF setting \in {"merge", "fields", "overlap", "send", "mutable", "extract"} THEN {[err |-> "e1"]} ELSE Errors

InitCalls ==
    /\ now = 0
    /\ pc = [c \in Calls |-> "idle"]
    /\ targetArgs = [c \in Calls |-> NoArgs]
    /\ callerArgs = [c \in Calls |-> Absent]
    /\ runtimeMetadata = [c \in Calls |-> EmptyObject]
    /\ wrapperOptions = [c \in Calls |-> EmptyObject]
    /\ startTime = [c \in Calls |-> NoTime]
    /\ endTime = [c \in Calls |-> NoTime]
    /\ target = [c \in Calls |-> Pending]
    /\ extraction = [c \in Calls |-> "none"]
    /\ record = [c \in Calls |-> NoRecord]
    /\ request = [c \in Calls |-> NoRequest]
    /\ sendState = [c \in Calls |-> "none"]
    /\ outcome = [c \in Calls |-> Pending]
    /\ log = [c \in Calls |-> << >>]

InitDirect(optionSet) ==
    /\ mode = "direct"
    /\ baseOptions = EmptyObject
    /\ specificOptions \in optionSet
    /\ givenOptions = [base |-> baseOptions, specific |-> specificOptions]

InitFactory(baseSet, specificSet) ==
    /\ mode = "factory"
    /\ baseOptions \in baseSet
    /\ specificOptions \in specificSet
    /\ givenOptions = [base |-> baseOptions, specific |-> specificOptions]

Init ==
    /\ InitDirect(DirectOptions) \/ InitFactory(FactoryBaseOptions, FactorySpecificOptions)
    /\ active = {1}
    /\ inputs = "all"
    /\ InitCalls

\* ---------------------------------------------------------------- actions
\* A factory-made wrapper that merges the layers when the target has
\* settled instead of before calling it.
OptionsOfMergedLate(c) ==
    IF mode = "direct" THEN specificOptions
    ELSE ResolvedOptions(baseOptions, specificOptions, runtimeMetadata[c])

\* The options object the closure of invocation c reads.  A direct wrapper
\* closes over the caller's options object itself; a factory-made wrapper
\* makes a fresh withLLMTracking closure over the object resolved at call time.
OptionsOf(c) == IF mode = "direct" THEN specificOptions ELSE wrapperOptions[c]

\* A merge into one object kept across calls: the runtime keys of the other
\* calls made so far stay in it.
RuntimeLayerShared(c, rt) ==
    LET others == {d \in Calls \ {c} : pc[d] # "idle"}
        keys == UNION {DOMAIN runtimeMetadata[d] : d \in others}
        kept == [k \in keys |->
                    runtimeMetadata[CHOOSE d \in others : k \in DOMAIN runtimeMetadata[d]][k]]
    IN  Spread(kept, rt)

\* ...(runtimeMetadata || {}): the argument of this call, spread into an
\* object literal made by this call.
RuntimeLayer(c, rt) == rt

\* A factory-made wrapper that hands both of its arguments to the target.
TargetArgumentsWithRuntime(args, rt) == <<args, rt>>

\* withLLMTracking((a) => originalFunction(a), ...)(args): the target of a
\* factory-made wrapper gets the first argument alone.
TargetArguments(args, rt) == <<args>>

\* The caller invokes the wrapper.  factory: wrappedWithMetadata merges the
\* options and calls withLLMTracking(...)(args); both: the wrapped function
\* reads the clock and calls the target, which is then in flight.
Invoke(c) ==
    /\ c \in active
    /\ pc[c] = "idle"
    /\ \E args \in ArgsOf(inputs) :
       \E rt \in (IF mode = "factory" THEN RuntimeOf(inputs) ELSE {EmptyObject}) :
          /\ runtimeMetadata' = [runtimeMetadata EXCEPT ![c] = rt]
          /\ wrapperOptions' =
                [wrapperOptions EXCEPT ![c] =
                    IF mode = "factory"
                    THEN ResolvedOptions(baseOptions, specificOptions, RuntimeLayer(c, rt))
                    ELSE EmptyObject]
          /\ callerArgs' = [callerArgs EXCEPT ![c] = args]
          /\ targetArgs' = [targetArgs EXCEPT ![c] =
                IF mode = "factory" THEN TargetArguments(args, rt) ELSE <<args>>]
    /\ startTime' = [startTime EXCEPT ![c] = now]
    /\ pc' = [pc EXCEPT ![c] = "awaiting"]
    /\ log' = [log EXCEPT ![c] = Append(@, "call-target")]
    /\ UNCHANGED <<configVars, now, endTime, target, extraction, record, request,
                   sendState, outcome>>

\* The target's promise fulfils with some response.
TargetResolve(c) ==
    /\ pc[c] = "awaiting"
    /\ \E r \in ResponsesOf(inputs) : target' = [target EXCEPT ![c] = Resolved(r)]
    /\ pc' = [pc EXCEPT ![c] = "settled"]
    /\ UNCHANGED <<configVars, now, targetArgs, callerArgs, runtimeMetadata, wrapperOptions,
                   startTime, endTime, extraction, record, request, sendState,
                   outcome, log>>

\* The target's promise rejects with some error.
TargetReject(c) ==
    /\ pc[c] = "awaiting"
    /\ \E e \in ErrorsOf(inputs) : target' = [target EXCEPT ![c] = Rejected(e)]
    /\ pc' = [pc EXCEPT ![c] = "settled"]
    /\ UNCHANGED <<configVars, now, targetArgs, callerArgs, runtimeMetadata, wrapperOptions,
                   startTime, endTime, extraction, record, request, sendState,
                   outcome, log>>

\* `LLM Tracker: Error occurred in tracked function '${options.functionName}'.`
TrackedFunctionError(functionName) == "error:tracked-function '" \o functionName \o "'"

\* A catch block that rethrows without console.error.
CaughtEventsSilent(functionName) == <<"reject">>

\* What the catch block of the wrapper does: console.error with the
\* function's name, then throw.
CaughtEvents(functionName) == <<TrackedFunctionError(functionName), "reject">>

\* The catch block of the wrapper: console.error, then throw error.
Caught(c, error, diag, status) ==
    /\ extraction' = [extraction EXCEPT ![c] = status]
    /\ outcome' = [outcome EXCEPT ![c] = Rejected(Rethrown(error))]
    /\ log' = [log EXCEPT ![c] =
            @ \o diag \o CaughtEvents(Field(OptionsOf(c), "functionName"))]
    /\ UNCHANGED <<endTime, record, request, sendState>>

\* A start time kept in one variable that every invocation overwrites: the
\* duration is measured from the start of the latest invocation.
DurationMsSharedStart(c, t) ==
    LET latest == CHOOSE d \in Calls : \A e \in Calls : startTime[d] >= startTime[e]
    IN  t - startTime[latest]

\* const durationMs = endTime - startTime, startTime being a const of the
\* invocation's own closure.
DurationMs(c, t) == t - startTime[c]

\* A wrapper that returns without calling sendTrackingData.
SendStartedNever(serializable) == "none"

\* The delivery after the call sendTrackingData(...).catch(...) has run up
\* to its first await: the request is in flight, or JSON.stringify threw
\* and the promise is rejected.
SendStarted(serializable) == IF serializable THEN "fetching" ELSE SendCatch

\* Steps 4 to 6 of the try block: assemble the record, call
\* sendTrackingData (which runs up to its await of fetch), return result.
Dispatch(c, options, result, tokens, model) ==
    LET durationMs == DurationMs(c, now)
        data == TrackingData(options, tokens, model.modelName, durationMs, now)
        diag == tokens.diag \o model.diag
    IN  /\ extraction' = [extraction EXCEPT ![c] = "ok"]
        /\ endTime' = [endTime EXCEPT ![c] = now]
        /\ record' = [record EXCEPT ![c] = data]
        /\ IF Serializable(data)
           THEN /\ request' = [request EXCEPT ![c] =
                        FetchRequest(Field(options, "trackerApiUrl"), data,
                                     Field(options, "apiKey"))]
                /\ sendState' = [sendState EXCEPT ![c] = SendStarted(TRUE)]
           ELSE /\ request' = request
                /\ sendState' = [sendState EXCEPT ![c] = SendStarted(FALSE)]
        /\ outcome' = [outcome EXCEPT ![c] =
                IF DeliveryAwaited THEN Pending ELSE Resolved(ReturnValue(result))]
        /\ log' = [log EXCEPT ![c] =
                @ \o diag \o <<"send">>
                  \o (IF Serializable(data) THEN <<"fetch">> ELSE <<"error:network">>)
                  \o (IF DeliveryAwaited THEN << >> ELSE <<"resolve">>)]

\* The wrapped function resumes after `await originalFunction(...args)`.
Resume(c) ==
    /\ pc[c] = "settled"
    /\ pc' = [pc EXCEPT ![c] = "done"]
    /\ LET options == OptionsOf(c)
       IN  IF target[c].k = "rejected"
           THEN Caught(c, target[c].v, << >>, "none")
           ELSE \E tokens \in TokenOutcomes(options, target[c].v) :
                  IF tokens.thrown
                  THEN Caught(c, TokenExtractorError, tokens.diag, "tokenThrew")
                  ELSE \E model \in ModelOutcomes(options, target[c].v) :
                         IF model.thrown
                         THEN Caught(c, ModelExtractorError, tokens.diag \o model.diag,
                                     "modelThrew")
                         ELSE Dispatch(c, options, target[c].v, tokens, model)
    /\ UNCHANGED <<configVars, now, targetArgs, callerArgs, runtimeMetadata, wrapperOptions,
                   startTime, target>>

\* What the caller's promise becomes when the delivery task ends, were the
\* wrapper to wait for it.
AfterDelivery(c) ==
    IF DeliveryAwaited /\ outcome[c] = Pending
    THEN [outcome EXCEPT ![c] = Resolved(ReturnValue(target[c].v))]
    ELSE outcome

\* fetch fulfils with response.ok: sendTrackingData returns.
FetchOk(c) ==
    /\ sendState[c] = "fetching"
    /\ sendState' = [sendState EXCEPT ![c] = "resolved"]
    /\ outcome' = AfterDelivery(c)
    /\ log' = [log EXCEPT ![c] = Append(@, "sent")]
    /\ UNCHANGED <<configVars, now, pc, targetArgs, callerArgs, runtimeMetadata, wrapperOptions,
                   startTime, endTime, target, extraction, record, request>>

\* fetch fulfils with !response.ok: sendTrackingData awaits response.text().
FetchNotOk(c) ==
    /\ sendState[c] = "fetching"
    /\ sendState' = [sendState EXCEPT ![c] = "readingBody"]
    /\ log' = [log EXCEPT ![c] = Append(@, "status:not-ok")]
    /\ UNCHANGED <<configVars, now, pc, targetArgs, callerArgs, runtimeMetadata, wrapperOptions,
                   startTime, endTime, target, extraction, record, request, outcome>>

\* fetch rejects: the catch block of sendTrackingData logs and rethrows.
FetchFail(c) ==
    /\ sendState[c] = "fetching"
    /\ sendState' = [sendState EXCEPT ![c] = SendCatch]
    /\ log' = [log EXCEPT ![c] = @ \o <<"fetch-failed", "error:network">>]
    /\ UNCHANGED <<configVars, now, pc, targetArgs, callerArgs, runtimeMetadata, wrapperOptions,
                   startTime, endTime, target, extraction, record, request, outcome>>

\* response.text() fulfils: console.error with the status, throw new Error,
\* which the catch block of sendTrackingData logs and rethrows.
BodyRead(c) ==
    /\ sendState[c] = "readingBody"
    /\ sendState' = [sendState EXCEPT ![c] = SendCatch]
    /\ log' = [log EXCEPT ![c] = @ \o <<"error:status", "error:network">>]
    /\ UNCHANGED <<configVars, now, pc, targetArgs, callerArgs, runtimeMetadata, wrapperOptions,
                   startTime, endTime, target, extraction, record, request, outcome>>

\* response.text() rejects: the catch block logs and rethrows.
BodyFail(c) ==
    /\ sendState[c] = "readingBody"
    /\ sendState' = [sendState EXCEPT ![c] = SendCatch]
    /\ log' = [log EXCEPT ![c] = Append(@, "error:network")]
    /\ UNCHANGED <<configVars, now, pc, targetArgs, callerArgs, runtimeMetadata, wrapperOptions,
                   startTime, endTime, target, extraction, record, request, outcome>>

\* A .catch handler with an empty body: the failure is swallowed unseen.
CatchEventsSilent == << >>

\* A .catch handler that, after logging, calls sendTrackingData once more.
CatchEventsRetry == <<"error:send-failed", "send", "fetch">>

\* What the .catch handler attached in withLLMTracking does: console.error.
CatchEvents == <<"error:send-failed">>

\* The .catch handler attached in withLLMTracking runs.
CatchDelivery(c) ==
    /\ sendState[c] = "rejected"
    /\ sendState' = [sendState EXCEPT ![c] = "handled"]
    /\ outcome' = AfterDelivery(c)
    /\ log' = [log EXCEPT ![c] = @ \o CatchEvents]
    /\ UNCHANGED <<configVars, now, pc, targetArgs, callerArgs, runtimeMetadata, wrapperOptions,
                   startTime, endTime, target, extraction, record, request>>

\* The clock advances.  Only an invocation that has not yet resumed reads
\* the clock again, so later readings are left out.
Tick ==
    /\ now < MaxTime
    /\ \E c \in active : pc[c] # "done"
    /\ now' = now + 1
    /\ UNCHANGED <<configVars, pc, targetArgs, callerArgs, runtimeMetadata, wrapperOptions,
                   startTime, endTime, target, extraction, record, request,
                   sendState, outcome, log>>

Next ==
    \/ Tick
    \/ \E c \in Calls : Invoke(c)
    \/ \E c \in Calls : TargetResolve(c)
    \/ \E c \in Calls : TargetReject(c)
    \/ \E c \in Calls : Resume(c)
    \/ \E c \in Calls : FetchOk(c)
    \/ \E c \in Calls : FetchNotOk(c)
    \/ \E c \in Calls : FetchFail(c)
    \/ \E c \in Calls : BodyRead(c)
    \/ \E c \in Calls : BodyFail(c)
    \/ \E c \in Calls : CatchDelivery(c)

Spec == Init /\ [][Next]_vars

\* ------------------------------------------------- other specifications
\* A wrapper with few configurations, for properties of behaviours.  The
\* event loop runs the continuation of a settled promise, so Resume is
\* weakly fair; nothing makes the target or the network answer.
LiveDirectOptions ==
    {MakeOptions("fn", "https://tracker/direct", "key", TRUE, md, x[1], x[2]) :
        md \in MapsOver({"userId"}),
        x \in {<<Absent, Absent>>, <<"custom", "custom">>}}

LiveInit ==
    /\ \/ InitDirect(LiveDirectOptions)
       \/ InitFactory({MakeOptions(Absent, "https://tracker/base", Absent, FALSE,
                                   EmptyObject, "aiSDK", "aiSDK")},
                      {MakeOptions("fn", Absent, Absent, FALSE, EmptyObject, Absent, Absent)})
    /\ active = {1}
    /\ inputs = "live"
    /\ InitCalls

LiveSpec == LiveInit /\ [][Next]_vars /\ \A c \in Calls : WF_vars(Resume(c))

\* A factory-made wrapper with every metadata layer drawn over shared and
\* unshared keys, for the merge.
MergeBaseOptions ==
    {MakeOptions(Absent, "https://tracker/base", Absent, TRUE, md, Absent, Absent) :
        md \in MetaMaps({"a", "b"})}
    \cup {MakeOptions(Absent, "https://tracker/base", Absent, FALSE, EmptyObject, Absent, Absent)}

MergeSpecificOptions ==
    {MakeOptions("fn", Absent, Absent, TRUE, md, Absent, Absent) :
        md \in MetaMaps({"a", "b"})}
    \cup {MakeOptions("fn", Absent, Absent, FALSE, EmptyObject, Absent, Absent)}

MergeInit ==
    /\ InitFactory(MergeBaseOptions, MergeSpecificOptions)
    /\ active = {1}
    /\ inputs = "merge"
    /\ InitCalls

MergeSpec == MergeInit /\ [][Next]_vars

\* A factory-made wrapper whose base and specific options each give or omit
\* the destination, the credential and the extractors (an empty-string
\* credential and a property set to undefined included), and a direct wrapper
\* with each kind of credential.
FieldBaseOptions ==
    {MakeOptions(Absent, "https://tracker/base", k, FALSE, EmptyObject, x[1], x[2]) :
        k \in {Absent, "baseKey"},
        x \in {<<Absent, Absent>>, <<"aiSDK", "aiSDK">>}}

FieldSpecificOptions ==
    {MakeOptions("fn", u, k, FALSE, EmptyObject, x[1], x[2]) :
        u \in {Absent, "https://tracker/specific"},
        k \in {Absent, "specificKey", ""},
        x \in {<<Absent, Absent>>, <<"aiSDK", Absent>>, <<"openAI", "openAI">>}}
    \cup {WithUndefined(MakeOptions("fn", Absent, Absent, FALSE, EmptyObject, Absent, Absent), f) :
            f \in {"apiKey", "tokenExtractor", "modelExtractor"}}

FieldDirectOptions ==
    {MakeOptions("fn", "https://tracker/direct", k, FALSE, EmptyObject, Absent, Absent) :
        k \in {Absent, "key", ""}}
    \cup {WithUndefined(MakeOptions("fn", "https://tracker/direct", Absent, FALSE,
                                    EmptyObject, Absent, Absent), "apiKey")}

FieldInit ==
    /\ InitDirect(FieldDirectOptions) \/ InitFactory(FieldBaseOptions, FieldSpecificOptions)
    /\ active = {1}
    /\ inputs = "fields"
    /\ InitCalls

FieldSpec == FieldInit /\ [][Next]_vars

\* One wrapper invoked again while earlier invocations are in flight: every
\* slot is used, and the calls differ in their runtime metadata, in what
\* their targets settle to and in when they start.
OverlapInit ==
    /\ \/ InitDirect({MakeOptions("fn", "https://tracker/direct", "key", TRUE,
                                   [k \in {"app"} |-> 1], Absent, Absent)})
       \/ InitFactory({MakeOptions(Absent, "https://tracker/base", "baseKey", TRUE,
                                   [k \in {"app"} |-> 1], Absent, Absent)},
                      {MakeOptions("fn", Absent, Absent, FALSE, EmptyObject, Absent, Absent)})
    /\ active = Calls
    /\ inputs = "overlap"
    /\ InitCalls

\* The steps of the invocations up to the return to the caller, the
\* requests left in flight: what a record holds and what the caller gets
\* are settled before the tracker backend answers.
OverlapNext ==
    \/ Tick
    \/ \E c \in Calls : Invoke(c)
    \/ \E c \in Calls : TargetResolve(c)
    \/ \E c \in Calls : TargetReject(c)
    \/ \E c \in Calls : Resume(c)

OverlapSpec == OverlapInit /\ [][OverlapNext]_vars

\* Overlapping invocations of a factory-made wrapper with every way a
\* delivery can go, a record that cannot be serialized included.  The clock
\* stands still: no delivery step reads it.
SendInit ==
    /\ InitFactory({MakeOptions(Absent, "https://tracker/base", "baseKey", FALSE,
                                EmptyObject, Absent, Absent)},
                   {MakeOptions("fn", Absent, Absent, FALSE, EmptyObject, Absent, Absent)})
    /\ active = Calls
    /\ inputs = "send"
    /\ InitCalls

SendNext ==
    \/ \E c \in Calls : Invoke(c)
    \/ \E c \in Calls : TargetResolve(c)
    \/ \E c \in Calls : TargetReject(c)
    \/ \E c \in Calls : Resume(c)
    \/ \E c \in Calls : FetchOk(c)
    \/ \E c \in Calls : FetchNotOk(c)
    \/ \E c \in Calls : FetchFail(c)
    \/ \E c \in Calls : BodyRead(c)
    \/ \E c \in Calls : BodyFail(c)
    \/ \E c \in Calls : CatchDelivery(c)

SendSpec == SendInit /\ [][SendNext]_vars

\* The same with the scheduling the event loop gives: the continuation of a
\* settled await and the handler attached to a rejected promise are run.
\* Nothing makes the target or the tracker backend answer.
SendFairSpec ==
    /\ SendInit
    /\ [][SendNext]_vars
    /\ \A c \in Calls : WF_vars(Resume(c)) /\ WF_vars(CatchDelivery(c))

\* A caller that keeps the options objects it passed and assigns to them
\* afterwards.  o.f = v, and o.metadata.k = v:
Assign(o, f, v) == Spread(o, [k \in {f} |-> v])
AssignMetadata(o, k, v) == Assign(o, "metadata", Assign(MetadataOf(o), k, v))

\* The objects one assignment makes of the options given to withLLMTracking
\* or to createTrackingWrapper ...
AssignedSpecific(o) ==
    {Assign(o, "functionName", "renamed"),
     Assign(o, "tokenExtractor", "aiSDK"),
     AssignMetadata(o, "late", 1)}
    \cup (IF mode = "direct"
          THEN {Assign(o, "trackerApiUrl", "https://tracker/changed"),
                Assign(o, "apiKey", "changedKey"),
                Assign(o, "modelExtractor", "aiSDK")}
          ELSE {})

\* ... and of the options given to createLLMTracker.
AssignedBase(o) ==
    {Assign(o, "trackerApiUrl", "https://tracker/changed"),
     Assign(o, "apiKey", "changedKey"),
     AssignMetadata(o, "app", 2)}

\* The caller assigns to a field of an options object, or to a key of its
\* metadata object, before an invocation or while its target is in flight.
MutateOptions ==
    /\ \E c \in active : pc[c] \in {"idle", "awaiting", "settled"}
    /\ \/ /\ \E o \in AssignedSpecific(specificOptions) : specificOptions' = o
          /\ baseOptions' = baseOptions
       \/ /\ mode = "factory"
          /\ \E o \in AssignedBase(baseOptions) : baseOptions' = o
          /\ specificOptions' = specificOptions
    /\ UNCHANGED <<mode, givenOptions, active, inputs, now, pc, targetArgs, callerArgs,
                   runtimeMetadata, wrapperOptions, startTime, endTime, target,
                   extraction, record, request, sendState, outcome, log>>

MutableInit ==
    /\ \/ InitDirect({MakeOptions("fn", "https://tracker/direct", "key", TRUE,
                                   [k \in {"app"} |-> 1], Absent, Absent)})
       \/ InitFactory({MakeOptions(Absent, "https://tracker/base", "baseKey", TRUE,
                                   [k \in {"app"} |-> 1], Absent, Absent)},
                      {MakeOptions("fn", Absent, Absent, FALSE, EmptyObject, Absent, Absent)})
    /\ active = {1}
    /\ inputs = "mutable"
    /\ InitCalls

MutableNext ==
    \/ Next
    \/ MutateOptions

MutableSpec == MutableInit /\ [][MutableNext]_vars

\* Wrappers configured with a built-in pair of strategies, invoked twice,
\* over the responses above.
ExtractOptions ==
    {MakeOptions("fn", "https://tracker/direct", "key", FALSE, EmptyObject, x[1], x[2]) :
        x \in {<<"aiSDK", "aiSDK">>, <<"openAI", "openAI">>}}

ExtractInit ==
    /\ InitDirect(ExtractOptions)
    /\ active = Calls
    /\ inputs = "extract"
    /\ InitCalls

\* The invocations up to the return to the caller: extraction is over when
\* the wrapper has resumed.
ExtractNext ==
    \/ \E c \in Calls : Invoke(c)
    \/ \E c \in Calls : TargetResolve(c)
    \/ \E c \in Calls : TargetReject(c)
    \/ \E c \in Calls : Resume(c)

ExtractSpec == ExtractInit /\ [][ExtractNext]_vars

\* ----------------------------------------------------------------- claims
HasRecord(c) == record[c] # NoRecord
HasRequest(c) == request[c] # NoRequest
Logged(c, what) == \E i \in DOMAIN log[c] : log[c][i] = what
ConfigMetadata(c) == MetadataOf(OptionsOf(c))

\* The caller's promise resolved with the very value the target resolved with.
GotResult(c) ==
    /\ target[c].k = "resolved"
    /\ outcome[c].k = "resolved"
    /\ outcome[c].v = target[c].v

\* The caller's promise rejected with the very error the target rejected with.
GotError(c) ==
    /\ target[c].k = "rejected"
    /\ outcome[c].k = "rejected"
    /\ outcome[c].v = target[c].v

\* C1: when the target resolved with r and the extractors returned, the
\* wrapper resolves with r itself, whatever pair or model name the
\* extractors returned and however the delivery went; and the wrapper never
\* resolves with anything but the target's result.
C1_ResultReturnedUnchanged ==
    \A c \in Calls :
        /\ (pc[c] = "done" /\ target[c].k = "resolved" /\ extraction[c] = "ok")
              => GotResult(c)
        /\ outcome[c].k = "resolved" => GotResult(c)

\* C1 witness: a custom token extractor returned a pair, the delivery
\* failed and was logged, and the caller holds the target's result.
C1_Witness ==
    \E c \in Calls :
        /\ Field(OptionsOf(c), "tokenExtractor") = "custom"
        /\ extraction[c] = "ok"
        /\ sendState[c] = "handled"
        /\ target[c].k = "resolved"
        /\ ~target[c].v.nil
        /\ GotResult(c)

\* C2: when the target rejected with e, the wrapper rejects with e itself,
\* and neither a record nor a request nor a delivery task exists for that
\* invocation.
C2_TargetErrorRethrown ==
    \A c \in Calls :
        target[c].k = "rejected" =>
            /\ record[c] = NoRecord
            /\ request[c] = NoRequest
            /\ sendState[c] = "none"
            /\ outcome[c].k # "resolved"
            /\ pc[c] = "done" => GotError(c)

\* C2 witness: a finished invocation whose target rejected.
C2_Witness ==
    \E c \in Calls :
        /\ pc[c] = "done"
        /\ target[c].k = "rejected"
        /\ GotError(c)
        /\ Logged(c, TrackedFunctionError("fn"))

\* C3: once the delivery has failed (bad status, network error, failed body
\* read, or while its failure is being read), the caller already holds the
\* target's result; and no step taken after the delivery began changes what
\* the caller holds.
C3_DeliveryFailureIsolated ==
    /\ [](\A c \in Calls :
            sendState[c] \in {"readingBody", "rejected", "handled"}
                => GotResult(c))
    /\ [][\A c \in Calls : sendState[c] # "none" => outcome'[c] = outcome[c]]_vars

\* C3 witness: a non-success status was read and logged, the .catch handler
\* ran, and the caller holds the result.
C3_Witness ==
    \E c \in Calls :
        /\ sendState[c] = "handled"
        /\ Logged(c, "error:status")
        /\ Logged(c, "error:send-failed")
        /\ GotResult(c)

\* C4: once the target has resolved, the wrapper settles to the caller with
\* the result (or with what an extractor threw) in every fair behaviour,
\* those in which the request never completes included.
C4_CallerNotBlockedByDelivery ==
    \A c \in Calls :
        (pc[c] = "settled" /\ target[c].k = "resolved")
            ~> (\/ GotResult(c)
                \/ extraction[c] \in {"tokenThrew", "modelThrew"})

\* C4 witness: the caller holds the result while the request is in flight.
C4_Witness ==
    \E c \in Calls :
        /\ sendState[c] = "fetching"
        /\ GotResult(c)

\* C5: the caller sees the target's own outcome in every finished
\* invocation, also when an extractor raised an error.
C5_CallerSeesTargetOutcome ==
    \A c \in Calls :
        pc[c] = "done" =>
            /\ target[c].k = "resolved" => GotResult(c)
            /\ target[c].k = "rejected" => GotError(c)

\* C6: in every record assembled, and in the body of every request issued,
\* totalTokens is the sum of inputTokens and outputTokens whenever the
\* extractor returned numbers (its declared type), zero defaults included.
C6_TotalIsSum ==
    \A c \in Calls :
        /\ (HasRecord(c) /\ IsNum(record[c].inputTokens) /\ IsNum(record[c].outputTokens))
              => record[c].totalTokens
                    = Num(record[c].inputTokens.n + record[c].outputTokens.n)
        /\ (HasRequest(c) /\ IsNum(request[c].body.inputTokens)
                          /\ IsNum(request[c].body.outputTokens))
              => request[c].body.totalTokens
                    = Num(request[c].body.inputTokens.n + request[c].body.outputTokens.n)

\* C6 witness: a request whose body carries two non-zero counts and their sum.
C6_Witness ==
    \E c \in Calls :
        /\ HasRequest(c)
        /\ request[c].body.inputTokens = Num(1)
        /\ request[c].body.outputTokens = Num(1)
        /\ request[c].body.totalTokens = Num(2)

\* C7: when the configuration metadata has a modelName, the record's
\* modelName is that value.
C7_MetadataModelNameWins ==
    \A c \in Calls :
        (HasRecord(c) /\ "modelName" \in DOMAIN ConfigMetadata(c))
            => record[c].modelName = ConfigMetadata(c)["modelName"]

C9_DurationOverwritesCaller ==
    \A c \in Calls :
        HasRecord(c) =>
            /\ startTime[c] \in Times /\ endTime[c] \in Times
            /\ record[c].metadata["durationMs"] = endTime[c] - startTime[c]
            /\ HasRequest(c) =>
                  request[c].body.metadata["durationMs"] = endTime[c] - startTime[c]

\* C9 witness: the configuration supplied durationMs and the record carries
\* a measured, non-zero duration.
C9_Witness ==
    \E c \in Calls :
        /\ HasRecord(c)
        /\ "durationMs" \in DOMAIN ConfigMetadata(c)
        /\ endTime[c] - startTime[c] > 0
        /\ record[c].metadata["durationMs"] = endTime[c] - startTime[c]

\* The value the layers give key k: the runtime one if there is one, else
\* the specific one, else the base one.
LayerValue(c, k) ==
    IF k \in DOMAIN runtimeMetadata[c] THEN runtimeMetadata[c][k]
    ELSE IF k \in DOMAIN MetadataOf(specificOptions) THEN MetadataOf(specificOptions)[k]
    ELSE MetadataOf(baseOptions)[k]

LayerKeys(c) ==
    (DOMAIN MetadataOf(baseOptions)) \cup (DOMAIN MetadataOf(specificOptions))
        \cup (DOMAIN runtimeMetadata[c])

\* C10: the metadata a factory-made wrapper resolves for an invocation has
\* every key of the base, specific and runtime metadata, each with the value
\* of the highest layer that defines it (base < specific < runtime), and
\* that is the metadata the record is built from.
C10_MergePrecedence ==
    \A c \in Calls :
        (mode = "factory" /\ pc[c] # "idle") =>
            /\ DOMAIN ConfigMetadata(c) = LayerKeys(c)
            /\ \A k \in LayerKeys(c) : ConfigMetadata(c)[k] = LayerValue(c, k)
            /\ HasRecord(c) =>
                  \A k \in LayerKeys(c) \ {"durationMs"} :
                      record[c].metadata[k] = LayerValue(c, k)

\* C10 witness: base {a:1}, specific {a:2, b:1}, runtime {b:2, c:1} gave a
\* record with a = 2, b = 2, c = 1.
C10_Witness ==
    \E c \in Calls :
        /\ mode = "factory"
        /\ MetadataOf(baseOptions) = [k \in {"a"} |-> 1]
        /\ MetadataOf(specificOptions) = [a |-> 2, b |-> 1]
        /\ runtimeMetadata[c] = [b |-> 2, c |-> 1]
        /\ HasRecord(c)
        /\ record[c].metadata["a"] = 2
        /\ record[c].metadata["b"] = 2
        /\ record[c].metadata["c"] = 1

\* The non-metadata fields the factory resolves by { ...baseOptions, ...specificOptions }.
ScalarFields == {"trackerApiUrl", "apiKey", "tokenExtractor", "modelExtractor"}

\* The value of field f after the resolution the claim describes: the
\* specific configuration's when it has the field, else the base one's.
SpecificOrBase(f) ==
    IF f \in DOMAIN specificOptions THEN specificOptions[f] ELSE Field(baseOptions, f)

\* The pair the token extractor named id returns for response r.
BuiltInTokens(id, r) ==
    CASE id = "aiSDK" -> aiSDKTokenExtractor(r)
      [] id = "openAI" -> openAITokenExtractor(r)
      [] OTHER -> defaultTokenExtractor(r)

\* C11: in every invocation of a factory-made wrapper each of trackerApiUrl,
\* apiKey, tokenExtractor and modelExtractor resolves to the specific
\* configuration's value when that configuration has the field and to the
\* base configuration's otherwise; the request goes to the resolved
\* destination with the resolved credential, and the record's tokens and
\* model are those the resolved extractors give.
C11_SpecificOverridesBase ==
    \A c \in Calls :
        (mode = "factory" /\ pc[c] # "idle") =>
            /\ \A f \in ScalarFields : Field(OptionsOf(c), f) = SpecificOrBase(f)
            /\ HasRequest(c) =>
                  /\ request[c].url = SpecificOrBase("trackerApiUrl")
                  /\ ("Authorization" \in DOMAIN request[c].headers) =>
                        request[c].headers["Authorization"]
                            = "Bearer " \o SpecificOrBase("apiKey")
                  /\ ("Authorization" \notin DOMAIN request[c].headers) =>
                        SpecificOrBase("apiKey") \in {Absent, ""}
            /\ HasRecord(c) =>
                  /\ record[c].inputTokens
                        = BuiltInTokens(SpecificOrBase("tokenExtractor"), target[c].v).inputTokens
                  /\ record[c].outputTokens
                        = BuiltInTokens(SpecificOrBase("tokenExtractor"), target[c].v).outputTokens
                  /\ record[c].modelName
                        = (IF SpecificOrBase("modelExtractor") = "aiSDK"
                           THEN Absent ELSE ModelField(target[c].v))

\* C11 witness: the base names a destination, a credential and the AI SDK
\* extractors; the specific configuration replaces all four, and the request
\* and the record of an OpenAI-shaped result show the specific ones.
C11_Witness ==
    \E c \in Calls :
        /\ mode = "factory"
        /\ Field(baseOptions, "apiKey") = "baseKey"
        /\ Field(baseOptions, "tokenExtractor") = "aiSDK"
        /\ Field(specificOptions, "tokenExtractor") = "openAI"
        /\ HasRequest(c)
        /\ request[c].url = "https://tracker/specific"
        /\ "Authorization" \in DOMAIN request[c].headers
        /\ request[c].headers["Authorization"] = "Bearer specificKey"
        /\ record[c].inputTokens = Num(1)
        /\ record[c].modelName = "m1"

\* No extractor is configured: the wrapper falls back on the default pair.
DefaultExtractors(c) ==
    /\ Field(OptionsOf(c), "tokenExtractor") = Absent
    /\ Field(OptionsOf(c), "modelExtractor") = Absent

\* The result of invocation c has usage.prompt_tokens and
\* usage.completion_tokens, both numbers, and a model.
ConventionalResult(c) ==
    /\ target[c].k = "resolved"
    /\ ~target[c].v.nil
    /\ target[c].v.usage
    /\ IsNum(target[c].v.prompt_tokens)
    /\ IsNum(target[c].v.completion_tokens)
    /\ target[c].v.model # Absent

\* C12: with no extractors configured and no modelName in the metadata, a
\* result with usage.prompt_tokens = p, usage.completion_tokens = c and
\* model = m gives a record, and a request body, with inputTokens = p,
\* outputTokens = c, totalTokens = p + c and modelName = m.
C12_DefaultExtraction ==
    \A c \in Calls :
        (/\ HasRecord(c)
         /\ DefaultExtractors(c)
         /\ "modelName" \notin DOMAIN ConfigMetadata(c)
         /\ ConventionalResult(c)) =>
            LET r == target[c].v
                expected == [inputTokens |-> r.prompt_tokens,
                             outputTokens |-> r.completion_tokens,
                             totalTokens |-> Num(r.prompt_tokens.n + r.completion_tokens.n),
                             modelName |-> r.model]
            IN  /\ \A f \in DOMAIN expected : record[c][f] = expected[f]
                /\ HasRequest(c) => \A f \in DOMAIN expected : request[c].body[f] = expected[f]

\* C12 witness: the result {usage: {prompt_tokens: 1, completion_tokens: 0},
\* model: "m1"} gave a request body with 1, 0, 1 and "m1".
C12_Witness ==
    \E c \in Calls :
        /\ DefaultExtractors(c)
        /\ "modelName" \notin DOMAIN ConfigMetadata(c)
        /\ target[c] = Resolved(OpenAIResponse(Num(1), Num(0), "m1"))
        /\ HasRequest(c)
        /\ request[c].body.inputTokens = Num(1)
        /\ request[c].body.outputTokens = Num(0)
        /\ request[c].body.totalTokens = Num(1)
        /\ request[c].body.modelName = "m1"

\* The result of invocation c lacks usage.prompt_tokens or
\* usage.completion_tokens: it is null or undefined, has no usage, or has
\* at most one of the two fields.
LacksUsageFields(c) ==
    /\ target[c].k = "resolved"
    /\ \/ UsageField(target[c].v, "prompt_tokens") = Undef
       \/ UsageField(target[c].v, "completion_tokens") = Undef

\* C13: when the result lacks usage.prompt_tokens or usage.completion_tokens,
\* the default token strategy (and the OpenAI one, which has the same body)
\* does not throw and warns; unless the other, caller-supplied extractor
\* throws, the wrapper dispatches a record with inputTokens = outputTokens =
\* totalTokens = 0 and the caller gets the result.
C13_DefaultDegradesToZero ==
    \A c \in Calls :
        (/\ pc[c] = "done"
         /\ Field(OptionsOf(c), "tokenExtractor") \in {Absent, "openAI"}
         /\ LacksUsageFields(c)) =>
            /\ extraction[c] # "tokenThrew"
            /\ Logged(c, "warn:default-tokens") \/ Logged(c, "warn:openai-tokens")
            /\ extraction[c] # "modelThrew" =>
                  /\ HasRecord(c)
                  /\ record[c].inputTokens = Num(0)
                  /\ record[c].outputTokens = Num(0)
                  /\ record[c].totalTokens = Num(0)
                  /\ sendState[c] # "none"
                  /\ Logged(c, "send")
                  /\ HasRequest(c) => request[c].body.totalTokens = Num(0)
                  /\ GotResult(c)

\* C13 witness: with the default extractors, a result that has
\* prompt_tokens but no completion_tokens gave a request with zero counts,
\* a warning, and the caller holds that result.
C13_Witness ==
    \E c \in Calls :
        /\ DefaultExtractors(c)
        /\ target[c] = Resolved(OpenAIResponse(Num(1), Undef, "m1"))
        /\ Logged(c, "warn:default-tokens")
        /\ HasRequest(c)
        /\ request[c].body.inputTokens = Num(0)
        /\ request[c].body.outputTokens = Num(0)
        /\ GotResult(c)

\* How many times the event what appears in the log of invocation c.
Occurrences(c, what) == Cardinality({i \in DOMAIN log[c] : log[c][i] = what})

\* Every event what of the wrapper, as (invocation, position) pairs.
AllOccurrences(what) ==
    {x \in Calls \X (1..12) : x[2] \in DOMAIN log[x[1]] /\ log[x[1]][x[2]] = what}

\* C14: a wrapper starts at most one delivery (one call of
\* sendTrackingData, at most one fetch) per invocation; the deliveries
\* started are as many as the invocations whose target resolved and whose
\* record was assembled; and once a delivery has failed, no step starts
\* another delivery or issues another request for that invocation.
C14_SingleDeliveryAttempt ==
    /\ [](\A c \in Calls :
            /\ Len(log[c]) <= 12
            /\ Occurrences(c, "send") <= 1
            /\ Occurrences(c, "fetch") <= Occurrences(c, "send")
            /\ Occurrences(c, "fetch") = (IF HasRequest(c) THEN 1 ELSE 0))
    /\ [](Cardinality(AllOccurrences("send"))
            = Cardinality({d \in Calls : target[d].k = "resolved" /\ HasRecord(d)}))
    /\ [][\A c \in Calls :
            sendState[c] \in {"readingBody", "rejected", "handled"} =>
                /\ Occurrences(c, "send")' = Occurrences(c, "send")
                /\ Occurrences(c, "fetch")' = Occurrences(c, "fetch")
                /\ request'[c] = request[c]
                /\ sendState'[c] \in {"readingBody", "rejected", "handled"}]_vars

\* C14 witness: of two invocations, one delivery failed in the network and
\* its failure was handled, the other was answered; each was started once.
C14_Witness ==
    \E c \in Calls : \E d \in Calls \ {c} :
        /\ sendState[c] = "handled"
        /\ Logged(c, "fetch-failed")
        /\ Occurrences(c, "send") = 1
        /\ sendState[d] = "resolved"
        /\ Occurrences(d, "send") = 1
        /\ Cardinality(AllOccurrences("fetch")) = 2

\* The promise of sendTrackingData for invocation c rejected.
SendRejected(c) == sendState[c] \in {"rejected", "handled"}

\* C15 as stated: every call of sendTrackingData performs one POST; it
\* rejects only if the fetch failed or the status was not a success one, it
\* rejects if the fetch failed, is on its way to rejecting if the status was
\* not a success one, and it resolves exactly when the status was a success
\* one.
C15_RejectsOnTransportOrStatusOnly ==
    \A c \in Calls :
        /\ sendState[c] # "none" => Occurrences(c, "fetch") = 1
        /\ SendRejected(c) => (Logged(c, "fetch-failed") \/ Logged(c, "status:not-ok"))
        /\ Logged(c, "fetch-failed") => SendRejected(c)
        /\ Logged(c, "status:not-ok") => (SendRejected(c) \/ sendState[c] = "readingBody")
        /\ sendState[c] = "resolved" <=> Logged(c, "sent")

\* C15 amended: a call of sendTrackingData performs one POST when the record
\* can be serialized and none when it cannot; it rejects only if serializing
\* threw, the fetch failed or the status was not a success one; it rejects
\* in the first two cases, is on its way to rejecting in the third, and
\* resolves exactly when the status was a success one.
C15_RejectsOnSerializationTransportOrStatus ==
    \A c \in Calls :
        sendState[c] # "none" =>
            /\ HasRecord(c)
            /\ Occurrences(c, "fetch") = (IF Serializable(record[c]) THEN 1 ELSE 0)
            /\ SendRejected(c) =>
                  \/ ~Serializable(record[c])
                  \/ Logged(c, "fetch-failed")
                  \/ Logged(c, "status:not-ok")
            /\ ~Serializable(record[c]) => SendRejected(c)
            /\ Logged(c, "fetch-failed") => SendRejected(c)
            /\ Logged(c, "status:not-ok") => (SendRejected(c) \/ sendState[c] = "readingBody")
            /\ sendState[c] = "resolved" <=> Logged(c, "sent")

\* C15 witness: one delivery rejected before any request, its record having
\* a circular metadata value; another rejected after a non-success status.
C15_Witness ==
    \E c \in Calls : \E d \in Calls \ {c} :
        /\ SendRejected(c)
        /\ "self" \in DOMAIN record[c].metadata
        /\ ~HasRequest(c)
        /\ SendRejected(d)
        /\ HasRequest(d)
        /\ Logged(d, "status:not-ok")

\* The credential of the configuration invocation c runs with; undefined
\* and the empty string are no credential.
Credential(c) == Field(OptionsOf(c), "apiKey")
HasCredential(c) == Credential(c) \notin {Absent, ""}

\* C16: every request has the header Content-Type: application/json; it has
\* the header Authorization, with the value "Bearer " followed by the
\* credential, when the resolved configuration has a credential, and no
\* Authorization header when it has none.
C16_BearerHeaderIffCredential ==
    \A c \in Calls :
        HasRequest(c) =>
            /\ "Content-Type" \in DOMAIN request[c].headers
            /\ request[c].headers["Content-Type"] = "application/json"
            /\ request[c].method = "POST"
            /\ DOMAIN request[c].headers \subseteq {"Content-Type", "Authorization"}
            /\ HasCredential(c) <=> "Authorization" \in DOMAIN request[c].headers
            /\ HasCredential(c) =>
                  request[c].headers["Authorization"] = "Bearer " \o Credential(c)

\* C16 witness: a factory-made wrapper whose base gives the credential
\* sent a request with it.
C16_Witness ==
    \E c \in Calls :
        /\ mode = "factory"
        /\ "apiKey" \notin DOMAIN specificOptions
        /\ Credential(c) = "baseKey"
        /\ HasRequest(c)
        /\ request[c].headers
              = [k \in {"Content-Type", "Authorization"} |->
                    IF k = "Content-Type" THEN "application/json" ELSE "Bearer baseKey"]

\* The metadata keys the base and specific configurations give.
ConfiguredKeys == (DOMAIN MetadataOf(baseOptions)) \cup (DOMAIN MetadataOf(specificOptions))

\* C17: in every interleaving of invocations of a factory-made wrapper, the
\* metadata resolved for an invocation, the metadata of its record and the
\* metadata in its request have the configured keys, durationMs and the
\* runtime keys of that invocation and no other key, and each runtime key
\* has the value that invocation supplied.
C17_RuntimeMetadataPerCall ==
    \A c \in Calls :
        (mode = "factory" /\ pc[c] # "idle") =>
            LET own == runtimeMetadata[c]
            IN  /\ DOMAIN ConfigMetadata(c) = ConfiguredKeys \cup DOMAIN own
                /\ \A k \in DOMAIN own : ConfigMetadata(c)[k] = own[k]
                /\ HasRecord(c) =>
                      /\ DOMAIN record[c].metadata
                            = ConfiguredKeys \cup (DOMAIN own) \cup {"durationMs"}
                      /\ \A k \in (DOMAIN own) \ {"durationMs"} :
                            record[c].metadata[k] = own[k]
                /\ HasRequest(c) => request[c].body.metadata = record[c].metadata

\* C17 witness: a call with runtime metadata {userId: 2, requestId: 2} is
\* still in flight; a later call without runtime metadata has finished, and
\* its request carries neither key.
C17_Witness ==
    \E c \in Calls : \E d \in Calls \ {c} :
        /\ mode = "factory"
        /\ pc[c] \in {"awaiting", "settled"}
        /\ runtimeMetadata[c] = [k \in {"userId", "requestId"} |-> 2]
        /\ startTime[c] < startTime[d]
        /\ runtimeMetadata[d] = EmptyObject
        /\ HasRequest(d)
        /\ DOMAIN request[d].body.metadata = {"app", "durationMs"}

\* The record and the request of invocation c are those the configuration
\* o gives: its functionName, metadata, extractors, destination and
\* credential (o names built-in extractors or none, and has a credential).
BuiltFrom(c, o) ==
    /\ HasRecord(c) =>
          /\ record[c].functionName = Field(o, "functionName")
          /\ record[c].metadata
                = Spread(MetadataOf(o), [k \in {"durationMs"} |-> endTime[c] - startTime[c]])
          /\ record[c].inputTokens
                = BuiltInTokens(Field(o, "tokenExtractor"), target[c].v).inputTokens
          /\ record[c].outputTokens
                = BuiltInTokens(Field(o, "tokenExtractor"), target[c].v).outputTokens
          /\ record[c].modelName
                = (IF Field(o, "modelExtractor") = "aiSDK"
                   THEN Absent ELSE ModelField(target[c].v))
    /\ HasRequest(c) =>
          /\ request[c].url = Field(o, "trackerApiUrl")
          /\ "Authorization" \in DOMAIN request[c].headers
          /\ request[c].headers["Authorization"] = "Bearer " \o Field(o, "apiKey")
          /\ request[c].body.functionName = Field(o, "functionName")
          /\ request[c].body.metadata = record[c].metadata

\* C18: in every invocation of a factory-made wrapper the configuration is
\* resolved, metadata merged, when the target is called; no step changes it
\* afterwards, whatever the caller assigns to the base or specific options
\* or to their metadata; and the record and the request are built from it.
C18_ResolvedBeforeTargetRuns ==
    /\ [](\A c \in Calls :
            (mode = "factory" /\ pc[c] # "idle") =>
                /\ "metadata" \in DOMAIN wrapperOptions[c]
                /\ "functionName" \in DOMAIN wrapperOptions[c]
                /\ BuiltFrom(c, wrapperOptions[c]))
    /\ [][\A c \in Calls :
            (mode = "factory" /\ pc[c] # "idle") =>
                /\ wrapperOptions'[c] = wrapperOptions[c]
                /\ HasRecord(c) => record'[c] = record[c]
                /\ HasRequest(c) => request'[c] = request[c]]_vars

\* C18 witness: while the target was in flight the caller set
\* specificOptions.metadata.late and baseOptions.apiKey; the request has no
\* key late and carries the credential the base had at the call.
C18_Witness ==
    \E c \in Calls :
        /\ mode = "factory"
        /\ "late" \in DOMAIN MetadataOf(specificOptions)
        /\ Field(baseOptions, "apiKey") = "changedKey"
        /\ "late" \notin DOMAIN MetadataOf(wrapperOptions[c])
        /\ Field(wrapperOptions[c], "apiKey") = "baseKey"
        /\ HasRequest(c)
        /\ "late" \notin DOMAIN request[c].body.metadata
        /\ request[c].headers["Authorization"] = "Bearer baseKey"

\* C19: the record and the request of every invocation of a wrapper made by
\* withLLMTracking are built from the options as they were when the wrapper
\* was made, whatever the caller assigned to the options object since.
C19_WrapTimeConfigurationUsed ==
    \A c \in Calls :
        mode = "direct" => BuiltFrom(c, givenOptions.specific)

\* C20: in every interleaving of overlapping invocations of one wrapper,
\* each finished invocation whose target resolved holds that target's
\* result and has a record with the tokens and model of that result and the
\* duration from its own start to its own end; each finished invocation
\* whose target rejected holds that error and has no record and no request,
\* whatever the other invocations did.
C20_InvocationsDoNotInterfere ==
    \A c \in Calls :
        /\ outcome[c].k = "resolved" => GotResult(c)
        /\ outcome[c].k = "rejected" => GotError(c)
        /\ (pc[c] = "done" /\ target[c].k = "resolved") =>
              /\ GotResult(c)
              /\ HasRecord(c)
              /\ HasRequest(c)
              /\ record[c].inputTokens = target[c].v.prompt_tokens
              /\ record[c].outputTokens = target[c].v.completion_tokens
              /\ record[c].modelName = target[c].v.model
              /\ startTime[c] \in Times /\ endTime[c] \in Times
              /\ record[c].metadata["durationMs"] = endTime[c] - startTime[c]
              /\ request[c].body.inputTokens = target[c].v.prompt_tokens
              /\ request[c].body.metadata["durationMs"] = endTime[c] - startTime[c]
        /\ (pc[c] = "done" /\ target[c].k = "rejected") =>
              /\ GotError(c)
              /\ ~HasRecord(c)
              /\ ~HasRequest(c)
              /\ sendState[c] = "none"

\* C20 witness: two invocations started before and resumed after the same
\* tick of the clock, with different results; each holds its own result
\* and its record has its own tokens and model.
C20_Witness ==
    \E c \in Calls : \E d \in Calls \ {c} :
        /\ startTime[c] = 0 /\ endTime[c] = 1
        /\ startTime[d] = 0 /\ endTime[d] = 1
        /\ target[c] = Resolved(OpenAIResponse(Num(1), Num(0), "m1"))
        /\ target[d] = Resolved(OpenAIResponse(Num(0), Num(1), "m2"))
        /\ GotResult(c) /\ GotResult(d)
        /\ record[c].inputTokens = Num(1) /\ record[c].modelName = "m1"
        /\ record[d].inputTokens = Num(0) /\ record[d].modelName = "m2"

\* The delivery of invocation c fails in this step, or its failure is
\* handled in this step (the step in which the wrapper itself resumes, and
\* in which a record that cannot be serialized fails at once, is not one).
DeliveryFailureStep(c) ==
    /\ sendState[c] # "none"
    /\ sendState'[c] # sendState[c]
    /\ sendState'[c] \in {"rejected", "handled"}

\* C21: a rejected delivery has been reported by sendTrackingData
\* (console.error) when it rejects; its rejection is then handled by the
\* .catch handler, which reports it again, in every fair behaviour; and the
\* steps in which a delivery fails or its failure is handled change nothing
\* but that delivery's state and that invocation's log: not the caller's
\* outcome, the record, the request, nor anything of another invocation.
C21_DeliveryFailureOnlyLogged ==
    /\ [](\A c \in Calls : SendRejected(c) => Logged(c, "error:network"))
    /\ \A c \in Calls :
          (sendState[c] = "rejected")
              ~> (sendState[c] = "handled" /\ Logged(c, "error:send-failed"))
    /\ [][\A c \in Calls :
            DeliveryFailureStep(c) =>
                /\ outcome' = outcome /\ pc' = pc /\ target' = target
                /\ record' = record /\ request' = request
                /\ extraction' = extraction
                /\ \A d \in Calls \ {c} :
                      log'[d] = log[d] /\ sendState'[d] = sendState[d]]_vars

\* C21 witness: one delivery failed before any request and another after a
\* non-success status; both failures were handled and logged, and both
\* callers hold their results.
C21_Witness ==
    \E c \in Calls : \E d \in Calls \ {c} :
        /\ sendState[c] = "handled" /\ sendState[d] = "handled"
        /\ ~HasRequest(c)
        /\ Logged(d, "status:not-ok")
        /\ Logged(c, "error:send-failed") /\ Logged(d, "error:send-failed")
        /\ GotResult(c) /\ GotResult(d)

\* C22: when the target has rejected, nothing is logged and the caller
\* holds nothing until the wrapper resumes; when it has resumed, the log of
\* the invocation is the call of the target, one console.error naming the
\* configured functionName, and then the rejection to the caller, in that
\* order, and the caller holds the target's error.
C22_DiagnosticBeforeRejection ==
    \A c \in Calls :
        target[c].k = "rejected" =>
            LET message == TrackedFunctionError(Field(OptionsOf(c), "functionName"))
            IN  /\ pc[c] = "settled" =>
                      /\ outcome[c] = Pending
                      /\ log[c] = <<"call-target">>
                /\ pc[c] = "done" =>
                      /\ GotError(c)
                      /\ Occurrences(c, message) = 1
                      /\ log[c] = <<"call-target", message, "reject">>

\* C22 witness: a factory-made wrapper whose target rejected with e2 logged
\* the error of function 'fn' once and then rejected with e2.
C22_Witness ==
    \E c \in Calls :
        /\ mode = "factory"
        /\ target[c] = Rejected([err |-> "e2"])
        /\ outcome[c] = Rejected([err |-> "e2"])
        /\ log[c] = <<"call-target", "error:tracked-function 'fn'", "reject">>

\* The two usage fields a built-in token strategy reads.
ProviderFields(id) ==
    IF id = "aiSDK" THEN <<"promptTokens", "completionTokens">>
    ELSE <<"prompt_tokens", "completion_tokens">>

\* The warning of a built-in token strategy.
ProviderWarning(id) == IF id = "aiSDK" THEN "warn:aisdk-tokens" ELSE "warn:openai-tokens"

\* The response r is an object with a usage object holding both fields.
BothDefined(r, fields) ==
    /\ ~r.nil
    /\ r.usage
    /\ r[fields[1]] # Undef
    /\ r[fields[2]] # Undef

\* The response r has the fields of the other provider only.
OtherShapeOnly(r, id) ==
    LET other == ProviderFields(IF id = "aiSDK" THEN "openAI" ELSE "aiSDK")
    IN  /\ BothDefined(r, other)
        /\ r[ProviderFields(id)[1]] = Undef
        /\ r[ProviderFields(id)[2]] = Undef

\* C23: with the AI SDK or the OpenAI strategies configured, for every
\* response the target resolves with (null or undefined, a primitive, no
\* usage, usage lacking a field, either provider's shape) no strategy
\* throws and a record is assembled; its counts are the provider's two
\* usage fields, with no warning, when both are defined, and 0 and 0 with
\* one warning otherwise, so also for a response in the other provider's
\* shape; with the OpenAI model strategy its model is response.model, or
\* absent when the response has none.
C23_BuiltInStrategiesTotal ==
    \A c \in Calls :
        (/\ pc[c] = "done"
         /\ target[c].k = "resolved"
         /\ Field(OptionsOf(c), "tokenExtractor") \in {"aiSDK", "openAI"}
         /\ Field(OptionsOf(c), "modelExtractor") \in {"aiSDK", "openAI"}) =>
            LET r == target[c].v
                id == Field(OptionsOf(c), "tokenExtractor")
                fields == ProviderFields(id)
            IN  /\ extraction[c] = "ok"
                /\ GotResult(c)
                /\ HasRecord(c)
                /\ BothDefined(r, fields) =>
                      /\ record[c].inputTokens = r[fields[1]]
                      /\ record[c].outputTokens = r[fields[2]]
                      /\ Occurrences(c, ProviderWarning(id)) = 0
                /\ ~BothDefined(r, fields) =>
                      /\ record[c].inputTokens = Num(0)
                      /\ record[c].outputTokens = Num(0)
                      /\ Occurrences(c, ProviderWarning(id)) = 1
                /\ OtherShapeOnly(r, id) =>
                      /\ record[c].inputTokens = Num(0)
                      /\ record[c].outputTokens = Num(0)
                /\ Field(OptionsOf(c), "modelExtractor") = "openAI" =>
                      record[c].modelName
                          = (IF r = NilResponse \/ r = PrimitiveResponse
                             THEN Absent ELSE r.model)

\* C23 witness: the AI SDK strategy got an OpenAI-shaped response and gave
\* zero counts with a warning, and in another invocation got
\* {usage: {promptTokens: null, completionTokens: 1}} and gave null and 1
\* with no warning.
C23_Witness ==
    \E c \in Calls : \E d \in Calls \ {c} :
        /\ Field(specificOptions, "tokenExtractor") = "aiSDK"
        /\ target[c] = Resolved(OpenAIResponse(Num(1), Num(1), "m1"))
        /\ HasRecord(c)
        /\ record[c].inputTokens = Num(0)
        /\ record[c].outputTokens = Num(0)
        /\ Logged(c, "warn:aisdk-tokens")
        /\ GotResult(c)
        /\ target[d] = Resolved(Response(FALSE, TRUE, Undef, Undef, Null, Num(1), "m1"))
        /\ HasRecord(d)
        /\ record[d].inputTokens = Null
        /\ record[d].outputTokens = Num(1)
        /\ ~Logged(d, "warn:aisdk-tokens")

\* C24: with the AI SDK model strategy configured, every invocation whose
\* target resolved, whatever the response and whether or not it carries a
\* model, logs the model warning exactly once, assembles a record with no
\* modelName, and sends a body without one.
C24_AISDKModelAlwaysAbsent ==
    \A c \in Calls :
        (/\ pc[c] = "done"
         /\ target[c].k = "resolved"
         /\ Field(OptionsOf(c), "tokenExtractor") = "aiSDK"
         /\ Field(OptionsOf(c), "modelExtractor") = "aiSDK") =>
            /\ Occurrences(c, "warn:aisdk-model") = 1
            /\ HasRecord(c)
            /\ record[c].modelName = Absent
            /\ HasRequest(c)
            /\ "modelName" \notin DOMAIN request[c].body

\* C24 witness: two invocations with the AI SDK strategies, one whose
\* response carries model "m2" and one whose response carries "m1", each
\* warned once and neither record has a model.
C24_Witness ==
    \E c \in Calls : \E d \in Calls \ {c} :
        /\ Field(specificOptions, "modelExtractor") = "aiSDK"
        /\ target[c] = Resolved(NoUsageResponse("m2"))
        /\ target[d] = Resolved(Response(FALSE, TRUE, Undef, Undef, Num(1), Num(1), "m1"))
        /\ Occurrences(c, "warn:aisdk-model") = 1
        /\ Occurrences(d, "warn:aisdk-model") = 1
        /\ HasRecord(c)
        /\ HasRecord(d)
        /\ record[c].modelName = Absent
        /\ record[d].modelName = Absent

\* The value v is a number that is not negative.
NonNegativeNumber(v) == IsNum(v) /\ v.n >= 0

\* C25: in every record assembled for dispatch, inputTokens, outputTokens
\* and totalTokens are numbers and not negative.
C25_TokenCountsNonNegative ==
    \A c \in Calls :
        HasRecord(c) =>
            /\ NonNegativeNumber(record[c].inputTokens)
            /\ NonNegativeNumber(record[c].outputTokens)
            /\ NonNegativeNumber(record[c].totalTokens)

\* The position of the first event what in the log of invocation c, 0 if
\* there is none.
FirstPosition(c, what) ==
    IF Logged(c, what)
    THEN CHOOSE i \in DOMAIN log[c] :
            /\ log[c][i] = what
            /\ \A j \in DOMAIN log[c] : log[c][j] = what => i <= j
    ELSE 0

\* C26: in every state where the wrapper has resolved to the caller, the
\* delivery of that invocation has been started: sendTrackingData was
\* called before the resolution, the delivery is no longer unstarted, and
\* when the record can be serialized the request has been issued, though it
\* may still be unanswered.
C26_DeliveryStartedBeforeResult ==
    \A c \in Calls :
        outcome[c].k = "resolved" =>
            /\ HasRecord(c)
            /\ sendState[c] # "none"
            /\ Logged(c, "send")
            /\ FirstPosition(c, "send") < FirstPosition(c, "resolve")
            /\ Serializable(record[c]) =>
                  /\ HasRequest(c)
                  /\ FirstPosition(c, "fetch") < FirstPosition(c, "resolve")

\* C26 witness: the caller holds the result while the request of the
\* invocation is still unanswered.
C26_Witness ==
    \E c \in Calls :
        /\ GotResult(c)
        /\ sendState[c] = "fetching"
        /\ HasRequest(c)
        /\ log[c] = <<"call-target", "send", "fetch", "resolve">>

\* C27: a factory-made wrapper that has been invoked has called the target
\* exactly once, with one argument, the first argument of the invocation,
\* whatever runtime metadata came with it and through every later step; a
\* wrapper not yet invoked has not called it.
C27_TargetGetsFirstArgumentOnly ==
    \A c \in Calls :
        mode = "factory" =>
            /\ pc[c] = "idle" =>
                  /\ targetArgs[c] = NoArgs
                  /\ Occurrences(c, "call-target") = 0
            /\ pc[c] # "idle" =>
                  /\ Len(targetArgs[c]) = 1
                  /\ targetArgs[c][1] = callerArgs[c]
                  /\ Occurrences(c, "call-target") = 1

\* C27 witness: two finished invocations of a factory-made wrapper, one
\* with args1 and runtime metadata, one with args2 and none; each target
\* call got its own first argument and nothing else.
C27_Witness ==
    \E c \in Calls : \E d \in Calls \ {c} :
        /\ mode = "factory"
        /\ pc[c] = "done"
        /\ pc[d] = "done"
        /\ callerArgs[c] = "args1"
        /\ runtimeMetadata[c] # EmptyObject
        /\ targetArgs[c] = <<"args1">>
        /\ callerArgs[d] = "args2"
        /\ runtimeMetadata[d] = EmptyObject
        /\ targetArgs[d] = <<"args2">>

====
